---- MODULE Spec2Model ----
(***************************************************************************)
(* Draft/publish versioning of publisher/models.py (PublisherModelBase,    *)
(* PublisherModel).  Storage is a table of versioned rows plus a table of  *)
(* related child rows; a caller holds one in-memory instance and calls     *)
(* save, publish, unpublish and revert_to_public on it.                    *)
(***************************************************************************)
EXTENDS Integers, Sequences, FiniteSets, TLC

\* ---------------------------------------------------------------- bounds
MaxTime == 2        \* the clock runs 1..MaxTime
MaxId == 4          \* primary keys of versioned rows are 1..MaxId
MaxKids == 2        \* related rows the new draft starts with
MaxKidId == 6       \* primary keys of related rows are 1..MaxKidId
RecursionLimit == 2 \* depth at which the interpreter stops a recursion

\* ------------------------------------------------------------- constants
DirtySeconds == 5

None == 0
STATE_PUBLISHED == FALSE
STATE_DRAFT == TRUE

Contents == 0..1
Ids == 1..MaxId
KidIds == 1..MaxKidId
Times == 1..MaxTime
Deltas == {DirtySeconds, DirtySeconds + 1}
Callers == {"a", "b"}

VARIABLES
    store,      \* versioned rows: pk -> row
    kids,       \* related rows: pk -> [tbl, owner, rel, delta]
    nextId,     \* next primary key of the versioned table
    nextKid,    \* next primary key of the related table
    now,        \* the clock
    kidHasKids, \* schema: the one-to-many child type has a one-to-many relation of its own
    mem,        \* the instance the caller holds
    last,       \* the last call and its outcome
    pre,        \* the versioned rows and the instance as they were before the last call
    events,     \* the signals the last call sent, in order, each with storage as it was then
    pc,         \* concurrent callers: position in publish
    loc         \* concurrent callers: draft_obj and publish_obj

vars == <<store, kids, nextId, nextKid, now, kidHasKids, mem, last, pre, events, pc, loc>>

\* ------------------------------------------------------------ the fields
NewRow(c, t) ==
    [isDraft |-> STATE_DRAFT, linked |-> None, content |-> c,
     modifiedAt |-> t, publishedAt |-> None]

RowOf(obj) ==
    [isDraft |-> obj.isDraft, linked |-> obj.linked, content |-> obj.content,
     modifiedAt |-> obj.modifiedAt, publishedAt |-> obj.publishedAt]

\* objects.get(pk=...): an instance of the stored row
Get(st, pk) ==
    [pk |-> pk, isDraft |-> st[pk].isDraft, linked |-> st[pk].linked,
     content |-> st[pk].content, modifiedAt |-> st[pk].modifiedAt,
     publishedAt |-> st[pk].publishedAt]

\* variant: every record passes for a draft
is_draft_always(obj) == TRUE

is_draft(obj) == obj.isDraft = STATE_DRAFT

is_published(obj) == obj.isDraft = STATE_PUBLISHED

\* timezone.now() read after time t: the clock does not run backwards
Later(t) == {u \in Times : u >= t /\ u <= t + 1}

\* ------------------------------------------------------------- storage
\* variant: the link column is not unique
NoUniqueClash(st, pk, linked) == FALSE

\* publisher_linked is a OneToOneField: no two rows carry the same non-NULL link
UniqueClash(st, pk, linked) ==
    /\ linked # None
    /\ \E r \in DOMAIN st : r # pk /\ st[r].linked = linked

update_modified_at(obj, t) == [obj EXCEPT !.modifiedAt = t]

\* PublisherModel.save: stamp modifiedAt unless suppressed, then write the row.
\* An instance without pk is inserted under the next primary key.  The write
\* is refused when another row already carries the same publisher_linked
\* (OneToOneField: the column is unique).
save(st, nid, obj, t, suppress_modified) ==
    LET o1 == IF suppress_modified = FALSE THEN update_modified_at(obj, t) ELSE obj
        pk == IF o1.pk = None THEN nid ELSE o1.pk
    IN  IF UniqueClash(st, pk, o1.linked)
        THEN [ok |-> FALSE, store |-> st, nextId |-> nid, obj |-> o1]
        ELSE [ok |-> TRUE,
              store |-> (pk :> RowOf(o1)) @@ st,
              nextId |-> IF o1.pk = None THEN nid + 1 ELSE nid,
              obj |-> [o1 EXCEPT !.pk = pk]]

RECURSIVE SortedSeq(_)
SortedSeq(S) ==
    IF S = {} THEN <<>>
    ELSE LET m == CHOOSE x \in S : \A y \in S : x <= y
         IN  <<m>> \o SortedSeq(S \ {m})

\* getattr(obj, accessor).all(): the related rows of one relation, in pk order
ItemsOf(ks, tbl, owner, rel) ==
    SortedSeq({k \in DOMAIN ks :
                 ks[k].tbl = tbl /\ ks[k].owner = owner /\ ks[k].rel = rel})

\* the rows a cascading delete of (tbl, owner) takes with it
RECURSIVE Cascade(_, _, _)
Cascade(ks, tbl, owner) ==
    LET direct == {k \in DOMAIN ks :
                     ks[k].tbl = tbl /\ ks[k].owner = owner /\ ks[k].rel = "fk"}
    IN  direct \cup UNION {Cascade(ks, "kid", k) : k \in direct}

\* instance.delete(): the row goes, rows linking to it get NULL (SET_NULL),
\* one-to-many children go with it, many-to-many items lose the association
delete(st, ks, pk) ==
    LET gone == Cascade(ks, "rec", pk)
        orphan(k) == \/ ks[k].tbl = "rec" /\ ks[k].owner = pk
                     \/ ks[k].tbl = "kid" /\ ks[k].owner \in gone
    IN  [store |-> [r \in DOMAIN st \ {pk} |->
                       IF st[r].linked = pk THEN [st[r] EXCEPT !.linked = None]
                       ELSE st[r]],
         kids |-> [k \in DOMAIN ks \ gone |->
                       IF orphan(k) THEN [ks[k] EXCEPT !.owner = None] ELSE ks[k]]]

\* ------------------------------------------------------------ the cloner
RECURSIVE clone_relations(_, _, _, _, _)
RECURSIVE CloneItems(_, _, _, _, _)

\* variant: new_item.id is not emptied, so the save rewrites the item's own row
RECURSIVE CloneItemsSameId(_, _, _, _, _)
CloneItemsSameId(st, items, i, dtbl, dst) ==
    IF i > Len(items) THEN st
    ELSE LET item == items[i]
             saved == [kids |-> [st.kids EXCEPT ![item] =
                                    [@ EXCEPT !.tbl = dtbl, !.owner = dst]],
                       next |-> st.next]
         IN  CloneItemsSameId(clone_relations(saved, "kid", item, "kid", item),
                              items, i + 1, dtbl, dst)

\* variant: the item's own relations are cloned onto the item, not onto its copy
RECURSIVE CloneItemsOntoSource(_, _, _, _, _)
CloneItemsOntoSource(st, items, i, dtbl, dst) ==
    IF i > Len(items) THEN st
    ELSE LET item == items[i]
             new_item == st.next
             saved == [kids |-> (new_item :> [st.kids[item] EXCEPT
                                                !.tbl = dtbl, !.owner = dst]) @@ st.kids,
                       next |-> new_item + 1]
         IN  CloneItemsOntoSource(clone_relations(saved, "kid", item, "kid", item),
                                  items, i + 1, dtbl, dst)

\* one loop of clone_relations: copy each item under a fresh pk, point it at
\* the destination, save it, then clone the item's own relations onto the copy
CloneItems(st, items, i, dtbl, dst) ==
    IF i > Len(items) THEN st
    ELSE LET item == items[i]
             new_item == st.next
             saved == [kids |-> (new_item :> [st.kids[item] EXCEPT
                                                !.tbl = dtbl, !.owner = dst]) @@ st.kids,
                       next |-> new_item + 1]
         IN  CloneItems(clone_relations(saved, "kid", item, "kid", new_item),
                        items, i + 1, dtbl, dst)

clone_relations(st, stbl, src_obj, dtbl, dst_obj) ==
    LET fks == CloneItems(st, ItemsOf(st.kids, stbl, src_obj, "fk"), 1, dtbl, dst_obj)
    IN  CloneItems(fks, ItemsOf(fks.kids, stbl, src_obj, "m2m"), 1, dtbl, dst_obj)

\* rows clone_relations(src_obj, ...) will create
RECURSIVE Descendants(_, _, _)
Descendants(ks, tbl, owner) ==
    LET direct == {k \in DOMAIN ks : ks[k].tbl = tbl /\ ks[k].owner = owner}
    IN  direct \cup UNION {Descendants(ks, "kid", k) : k \in direct}

\* --------------------------------------------------------- the evaluator
\* tdelta = item.modified - item.created; tdelta.total_seconds() > 5
Edited(item) == item.delta > DirtySeconds

RECURSIVE check_reverse_foreign_keys_dirty(_, _, _, _)
RECURSIVE FkScan(_, _, _, _, _)

\* the item loop of check_reverse_foreign_keys_dirty; the result of the
\* recursive call is dropped, an exception it raises is not
FkScan(ks, hasKids, self, items, i) ==
    IF i > Len(items) THEN "False"
    ELSE IF Edited(ks[items[i]]) THEN "True"
    ELSE IF check_reverse_foreign_keys_dirty(ks, hasKids, self, "kid") = "AttributeError"
         THEN "AttributeError"
    ELSE FkScan(ks, hasKids, self, items, i + 1)

\* obj's relations are enumerated, but the accessor is read from self: for
\* obj = self these are self's children; for a child with a relation of its
\* own, self has no such accessor, getattr gives None and .all() raises
check_reverse_foreign_keys_dirty(ks, hasKids, self, objTbl) ==
    IF objTbl = "rec" THEN FkScan(ks, hasKids, self, ItemsOf(ks, "rec", self, "fk"), 1)
    ELSE IF hasKids THEN "AttributeError"
    ELSE "False"

RECURSIVE check_reverse_m2m_dirty(_, _, _)
RECURSIVE M2mScan(_, _, _, _, _)

M2mScan(ks, self, items, i, depth) ==
    IF i > Len(items) THEN "False"
    ELSE IF Edited(ks[items[i]]) THEN "True"
    ELSE IF check_reverse_m2m_dirty(ks, self, depth + 1) = "RecursionError"
         THEN "RecursionError"
    ELSE M2mScan(ks, self, items, i + 1, depth)

\* both the relations and the accessor are read from self, whatever obj is:
\* the recursive call walks self's items again
check_reverse_m2m_dirty(ks, self, depth) ==
    IF depth > RecursionLimit THEN "RecursionError"
    ELSE M2mScan(ks, self, ItemsOf(ks, "rec", self, "m2m"), 1, depth)

\* variant: the related rows are looked at before the draft's own timestamp
is_dirty_relations_first(st, ks, hasKids, obj) ==
    IF ~is_draft(obj) THEN "False"
    ELSE IF obj.linked = None THEN "True"
    ELSE LET fk == check_reverse_foreign_keys_dirty(ks, hasKids, obj.pk, "rec")
             m2m == check_reverse_m2m_dirty(ks, obj.pk, 0)
         IN  IF fk # "False" THEN fk
             ELSE IF m2m # "False" THEN m2m
             ELSE IF obj.modifiedAt > st[obj.linked].modifiedAt THEN "True"
             ELSE "False"

is_dirty(st, ks, hasKids, obj) ==
    IF ~is_draft(obj) THEN "False"
    ELSE IF obj.linked = None THEN "True"
    ELSE IF obj.modifiedAt > st[obj.linked].modifiedAt THEN "True"
    ELSE LET fk == check_reverse_foreign_keys_dirty(ks, hasKids, obj.pk, "rec")
         IN  IF fk # "False" THEN fk
             ELSE check_reverse_m2m_dirty(ks, obj.pk, 0)

\* ------------------------------------------------------- the state machine
pre_save_draft == "publisher_publish_pre_save_draft"
post_publish == "publisher_post_publish"
pre_unpublish == "publisher_pre_unpublish"
post_unpublish == "publisher_post_unpublish"

\* signal.send(...): a receiver sees storage as it is when the signal is sent
Signal(name, st, ks) == [signal |-> name, store |-> st, kids |-> ks]

\* variant: the pre-save signal is sent after the draft is saved
PublishSignalsAfterSave(linked_st, saved_st, ks) ==
    <<Signal(pre_save_draft, saved_st, ks), Signal(post_publish, saved_st, ks)>>

\* publish: the pre-save signal, draft_obj.save(), the post-publish signal
PublishSignals(linked_st, saved_st, ks) ==
    <<Signal(pre_save_draft, linked_st, ks), Signal(post_publish, saved_st, ks)>>

\* variant: publish does not stop at a draft that is not dirty
NothingToPublishNever(dirty) == FALSE

\* publish: if not self.is_dirty: return
NothingToPublish(dirty) == dirty = "False"

\* what a call leaves behind: its outcome, storage, the instance, the signals
Outcome(res, st, ks, nid, nkid, obj, evs) ==
    [result |-> res, store |-> st, kids |-> ks, nextId |-> nid, nextKid |-> nkid,
     obj |-> obj, events |-> evs]

\* utils.assert_draft: the decorated method runs on drafts only
assert_draft(self) == is_draft(self)

\* variant: the published date is set on every publish
SetPublishedDateAlways(draft_obj, t) == [draft_obj EXCEPT !.publishedAt = t]

\* publish: the published date is set on the first publish only
SetPublishedDate(draft_obj, t) ==
    IF draft_obj.linked = None THEN [draft_obj EXCEPT !.publishedAt = t]
    ELSE draft_obj

\* variant: the copy keeps the published date of the stored row
DuplicateDraftStoredDate(st, draft_obj) ==
    [Get(st, draft_obj.pk) EXCEPT !.pk = None, !.isDraft = STATE_PUBLISHED]

\* publish: the stored row of the draft, read again, without its primary key
\* (publisher_publish_empty_fields), marked published, with the draft's date
DuplicateDraft(st, draft_obj) ==
    [Get(st, draft_obj.pk) EXCEPT !.pk = None,
                                  !.isDraft = STATE_PUBLISHED,
                                  !.publishedAt = draft_obj.publishedAt]

\* The modelled type has no translations attribute: clone_translations does
\* nothing and has no counterpart here.
publish(st, ks, nid, nkid, hasKids, self, t1, t2) ==
    IF ~assert_draft(self)
    THEN Outcome("InvalidStateError", st, ks, nid, nkid, self, <<>>)
    ELSE LET dirty == is_dirty(st, ks, hasKids, self) IN
    IF NothingToPublish(dirty) THEN Outcome("noop", st, ks, nid, nkid, self, <<>>)
    ELSE IF dirty \in {"AttributeError", "RecursionError"}
    THEN Outcome(dirty, st, ks, nid, nkid, self, <<>>)
    ELSE LET draft_obj == SetPublishedDate(self, t1)
             ins == save(st, nid, DuplicateDraft(st, draft_obj), t2, FALSE)
         IN
    IF ~ins.ok
    THEN Outcome("IntegrityError", st, ks, nid, nkid, draft_obj, <<>>)
    ELSE LET publish_obj == ins.obj
             cl == clone_relations([kids |-> ks, next |-> nkid],
                                   "rec", draft_obj.pk, "rec", publish_obj.pk)
             upd == save(ins.store, ins.nextId,
                         [draft_obj EXCEPT !.linked = publish_obj.pk], t2, TRUE)
         IN
    IF ~upd.ok
    THEN Outcome("IntegrityError", ins.store, cl.kids, ins.nextId, cl.next,
                 upd.obj, <<Signal(pre_save_draft, ins.store, cl.kids)>>)
    ELSE Outcome("ok", upd.store, cl.kids, upd.nextId, cl.next,
                 upd.obj, PublishSignals(ins.store, upd.store, cl.kids))

\* variant: the published date is kept
ClearLinkKeepDate(self) == [self EXCEPT !.linked = None]

\* unpublish: the draft forgets its published record and its published date
ClearLink(self) == [self EXCEPT !.linked = None, !.publishedAt = None]

unpublish(st, ks, nid, nkid, self, t) ==
    IF ~assert_draft(self)
    THEN Outcome("InvalidStateError", st, ks, nid, nkid, self, <<>>)
    ELSE IF ~is_draft(self) \/ self.linked = None
    THEN Outcome("noop", st, ks, nid, nkid, self, <<>>)
    ELSE LET del == delete(st, ks, self.linked)
             upd == save(del.store, nid,
                         ClearLink(self), t, FALSE)
         IN
    IF ~upd.ok
    THEN Outcome("IntegrityError", del.store, del.kids, nid, nkid, upd.obj,
                 <<Signal(pre_unpublish, st, ks)>>)
    ELSE Outcome("ok", upd.store, del.kids, nid, nkid, upd.obj,
                 <<Signal(pre_unpublish, st, ks), Signal(post_unpublish, upd.store, del.kids)>>)

\* variant: the published object keeps its flag
PromoteKeepFlag(publish_obj) == publish_obj

\* revert_to_public: the published object is marked as a draft
Promote(publish_obj) == [publish_obj EXCEPT !.isDraft = STATE_DRAFT]

revert_to_public(st, ks, nid, nkid, hasKids, self, t1, t2, t3, t4) ==
    IF ~assert_draft(self)
    THEN Outcome("InvalidStateError", st, ks, nid, nkid, self, <<>>)
    ELSE IF self.linked = None
    THEN Outcome("noop", st, ks, nid, nkid, self, <<>>)
    ELSE LET publish_obj == Get(st, self.linked)
             detached == save(st, nid, [self EXCEPT !.linked = None], t1, FALSE)
             del == delete(detached.store, ks, self.pk)
             promoted == save(del.store, nid,
                              Promote(publish_obj), t2, FALSE)
             pub == publish(promoted.store, del.kids, nid, nkid, hasKids,
                            promoted.obj, t3, t4)
         IN
    IF ~detached.ok
    THEN Outcome("IntegrityError", st, ks, nid, nkid, detached.obj, <<>>)
    ELSE IF ~promoted.ok
    THEN Outcome("IntegrityError", del.store, del.kids, nid, nkid, promoted.obj, <<>>)
    ELSE IF pub.result \in {"ok", "noop"}
    THEN [pub EXCEPT !.result = "ok"]
    ELSE pub

\* ---------------------------------------------------------------- states
NoObj == [pk |-> None] @@ NewRow(0, 1)

\* the related rows a new draft starts with: up to MaxKids children of record
\* 1, in creation order, and at most one child of the first child
InitKids(n, cfg, grand) ==
    [k \in 1..n |-> [tbl |-> "rec", owner |-> 1, rel |-> cfg[k].rel, delta |-> cfg[k].delta]]
    @@ (IF grand = None THEN <<>>
        ELSE (n + 1) :> [tbl |-> "kid", owner |-> 1, rel |-> "fk", delta |-> grand])

InitStore ==
    /\ store = (1 :> NewRow(0, 1))
    /\ nextId = 2
    /\ now = 1
    /\ kidHasKids \in BOOLEAN
    /\ \E n \in 0..MaxKids :
       \E cfg \in [1..n -> [rel : {"fk", "m2m"}, delta : Deltas]] :
       \E grand \in {None} \cup Deltas :
          /\ grand # None => (kidHasKids /\ n >= 1 /\ cfg[1].rel = "fk")
          /\ kids = InitKids(n, cfg, grand)
          /\ nextKid = n + 1 + (IF grand = None THEN 0 ELSE 1)
    /\ mem = Get((1 :> NewRow(0, 1)), 1)
    /\ last = [op |-> "create", result |-> "ok"]
    /\ pre = [store |-> (1 :> NewRow(0, 1)), mem |-> Get((1 :> NewRow(0, 1)), 1)]
    /\ events = <<>>
    /\ loc = [c \in Callers |-> [draft_obj |-> NoObj, publish_obj |-> NoObj,
                                  dirty |-> "", result |-> ""]]

Init ==
    /\ InitStore
    /\ pc = [c \in Callers |-> "idle"]

\* a call on the held instance: what it leaves behind becomes the state
Called(op, out, t) ==
    /\ store' = out.store
    /\ kids' = out.kids
    /\ nextId' = out.nextId
    /\ nextKid' = out.nextKid
    /\ mem' = out.obj
    /\ events' = out.events
    /\ now' = t
    /\ last' = [op |-> op, result |-> out.result]
    /\ pre' = [store |-> store, mem |-> mem]
    /\ UNCHANGED <<kidHasKids, pc, loc>>

\* room for the rows a publish of obj creates
Room(obj) ==
    /\ nextId <= MaxId
    /\ nextKid + Cardinality(Descendants(kids, "rec", obj.pk)) <= MaxKidId + 1

Tick ==
    /\ now < MaxTime
    /\ now' = now + 1
    /\ UNCHANGED <<store, kids, nextId, nextKid, kidHasKids, mem, last, pre, events, pc, loc>>

\* the caller changes a content field of the instance, in memory only
Edit ==
    /\ is_draft(mem)
    /\ \E c \in Contents \ {mem.content} :
          Called("edit", Outcome("ok", store, kids, nextId, nextKid,
                                 [mem EXCEPT !.content = c], <<>>), now)

\* the caller saves the instance
Save ==
    /\ is_draft(mem)
    /\ \E t \in Later(now) :
          LET w == save(store, nextId, mem, t, FALSE)
          IN  Called("save", Outcome(IF w.ok THEN "ok" ELSE "IntegrityError",
                                     w.store, kids, w.nextId, nextKid, w.obj, <<>>), t)

\* the caller reads a row afresh
Load ==
    \E pk \in DOMAIN store :
       /\ Get(store, pk) # mem
       /\ Called("load", Outcome("ok", store, kids, nextId, nextKid,
                                 Get(store, pk), <<>>), now)

Publish ==
    /\ Room(mem)
    /\ \E t1 \in Later(now) : \E t2 \in Later(t1) :
          Called("publish",
                 publish(store, kids, nextId, nextKid, kidHasKids, mem, t1, t2), t2)

Unpublish ==
    \E t \in Later(now) :
       Called("unpublish", unpublish(store, kids, nextId, nextKid, mem, t), t)

RevertToPublic ==
    /\ mem.linked # None => Room(Get(store, mem.linked))
    /\ \E t1 \in Later(now) : \E t2 \in Later(t1) :
       \E t3 \in Later(t2) : \E t4 \in Later(t3) :
          Called("revert_to_public",
                 revert_to_public(store, kids, nextId, nextKid, kidHasKids, mem,
                                  t1, t2, t3, t4), t4)

Next ==
    \/ Tick
    \/ Edit
    \/ Save
    \/ Load
    \/ Publish
    \/ Unpublish
    \/ RevertToPublic

Spec == Init /\ [][Next]_vars

\* ------------------------------------------------- two concurrent callers
\* Each caller reads the draft (row 1) and runs publish on its own instance;
\* the statements of publish that touch storage are the steps.
RaceInit ==
    /\ InitStore
    /\ pc = [c \in Callers |-> "start"]

RaceStep(c, to, l) ==
    /\ pc' = [pc EXCEPT ![c] = to]
    /\ loc' = [loc EXCEPT ![c] = l]
    /\ UNCHANGED <<kidHasKids, mem, last, pre>>

\* the caller reads the draft
RRead(c) ==
    /\ pc[c] = "start"
    /\ RaceStep(c, "read", [loc[c] EXCEPT !.draft_obj = Get(store, 1)])
    /\ UNCHANGED <<store, kids, nextId, nextKid, now, events>>

\* publish up to the duplicate: is_dirty, the published date, objects.get
RCheck(c) ==
    /\ pc[c] = "read"
    /\ LET dirty == is_dirty(store, kids, kidHasKids, loc[c].draft_obj)
       IN  \E t \in Later(now) :
           /\ now' = t
           /\ IF dirty = "True"
              THEN LET draft_obj == SetPublishedDate(loc[c].draft_obj, t)
                   IN  RaceStep(c, "insert",
                                [loc[c] EXCEPT !.dirty = dirty,
                                               !.draft_obj = draft_obj,
                                               !.publish_obj = DuplicateDraft(store, draft_obj)])
              ELSE RaceStep(c, "done",
                            [loc[c] EXCEPT !.dirty = dirty,
                                           !.result = IF dirty = "False" THEN "noop" ELSE dirty])
    /\ UNCHANGED <<store, kids, nextId, nextKid, events>>

\* publish_obj.save()
RInsert(c) ==
    /\ pc[c] = "insert"
    /\ nextId <= MaxId
    /\ \E t \in Later(now) :
          LET ins == save(store, nextId, loc[c].publish_obj, t, FALSE)
          IN  /\ now' = t
              /\ store' = ins.store
              /\ nextId' = ins.nextId
              /\ IF ins.ok
                 THEN RaceStep(c, "clone", [loc[c] EXCEPT !.publish_obj = ins.obj])
                 ELSE RaceStep(c, "done", [loc[c] EXCEPT !.result = "IntegrityError"])
    /\ UNCHANGED <<kids, nextKid, events>>

\* clone_relations(draft_obj, publish_obj)
RClone(c) ==
    /\ pc[c] = "clone"
    /\ Room(loc[c].draft_obj)
    /\ LET cl == clone_relations([kids |-> kids, next |-> nextKid],
                                 "rec", loc[c].draft_obj.pk, "rec", loc[c].publish_obj.pk)
       IN  /\ kids' = cl.kids
           /\ nextKid' = cl.next
    /\ RaceStep(c, "link", loc[c])
    /\ UNCHANGED <<store, nextId, now, events>>

\* the link, the pre-save signal, draft_obj.save(suppress_modified=True), the
\* post-publish signal
RSave(c) ==
    /\ pc[c] = "link"
    /\ LET upd == save(store, nextId,
                       [loc[c].draft_obj EXCEPT !.linked = loc[c].publish_obj.pk],
                       now, TRUE)
       IN  /\ store' = upd.store
           /\ events' = IF upd.ok THEN events \o PublishSignals(store, upd.store, kids)
                        ELSE events \o <<Signal(pre_save_draft, store, kids)>>
           /\ RaceStep(c, "done",
                       [loc[c] EXCEPT !.draft_obj = upd.obj,
                                      !.result = IF upd.ok THEN "ok" ELSE "IntegrityError"])
    /\ UNCHANGED <<kids, nextId, nextKid, now>>

NextRace ==
    \E c \in Callers :
       \/ RRead(c)
       \/ RCheck(c)
       \/ RInsert(c)
       \/ RClone(c)
       \/ RSave(c)

SpecRace == RaceInit /\ [][NextRace]_vars

\* ================================================================ claims
Published == {r \in DOMAIN store : is_published(store[r])}

\* the held instance is a saved draft with a published record in storage
Linked(obj, st) ==
    /\ is_draft(obj)
    /\ obj.pk \in DOMAIN st
    /\ obj.linked # None
    /\ obj.linked \in DOMAIN st

\* C1: a second publish right after a publish that did work is a no-op: it
\* finds the draft not dirty, leaves both tables as they are and sends no signal.
C1_PublishTwice ==
    [][(last.op = "publish" /\ last.result = "ok" /\ Publish)
        => (last'.result = "noop" /\ store' = store /\ kids' = kids /\ events' = <<>>)]_vars

\* C2: storage never holds more than one published record of the draft's
\* lineage, and holds exactly one, the one the draft links to, right after a
\* publish that did work.
C2_AtMostOnePublished ==
    /\ Cardinality(Published) <= 1
    /\ (last.op = "publish" /\ last.result = "ok") => Published = {mem.linked}

\* C2 witness: a republish of a dirty draft that has a published record was
\* attempted, and the one published record is still the only one
C2_Witness ==
    /\ last.op = "publish"
    /\ Linked(pre.mem, pre.store)
    /\ is_dirty(pre.store, kids, kidHasKids, pre.mem) = "True"
    /\ Cardinality(Published) = 1

\* C3: no published record carries a link.
C3_NoForwardLink ==
    \A r \in Published : store[r].linked = None

\* C3 witness: publish ran on a draft whose stored row carries a link; the
\* copy of that row was refused and the published record in storage has none
C3_Witness ==
    /\ last.op = "publish"
    /\ last.result = "IntegrityError"
    /\ pre.store[pre.mem.pk].linked # None
    /\ Published # {}
    /\ \A r \in Published : store[r].linked = None

\* C4: unpublish right after the publish of a draft leaves the instance and
\* its row a draft without link and without published date, and no published
\* row in storage.
C4_RoundTrip ==
    [][(last.op = "publish" /\ last.result = "ok" /\ Unpublish)
        => /\ last'.result = "ok"
           /\ is_draft(mem') /\ mem'.linked = None /\ mem'.publishedAt = None
           /\ store'[mem'.pk] = RowOf(mem')
           /\ mem.linked \notin DOMAIN store'
           /\ \A r \in DOMAIN store' : is_draft(store'[r])]_vars

\* C4 witness: the first published row (pk 2) was made and unpublish removed it
C4_Witness ==
    /\ last.op = "unpublish"
    /\ last.result = "ok"
    /\ pre.mem.linked = 2
    /\ nextId = 3
    /\ 2 \notin DOMAIN store

\* C5: right after a publish that did work, the published record's content
\* is the content of the draft's row.
C5_SnapshotEqualsDraft ==
    (last.op = "publish" /\ last.result = "ok")
        => store[mem.linked].content = store[mem.pk].content

\* C6: revert_to_public on a draft with a published record returns a draft
\* whose content is the published record's content from before the call, and
\* the old draft row is gone.
C6_RevertDiscardsEdits ==
    (last.op = "revert_to_public" /\ Linked(pre.mem, pre.store))
        => /\ last.result = "ok"
           /\ is_draft(mem)
           /\ mem.content = pre.store[pre.mem.linked].content
           /\ store[mem.pk].content = pre.store[pre.mem.linked].content
           /\ mem.pk = pre.mem.linked
           /\ pre.mem.pk \notin DOMAIN store

\* C6 witness: the draft had been edited and saved, not published, and its
\* content differed from the published record's when it was reverted
C6_Witness ==
    /\ last.op = "revert_to_public"
    /\ Linked(pre.mem, pre.store)
    /\ pre.mem = Get(pre.store, pre.mem.pk)
    /\ pre.mem.content # pre.store[pre.mem.linked].content
    /\ pre.mem.modifiedAt > pre.store[pre.mem.linked].modifiedAt
    /\ mem.content # pre.mem.content

\* C7: when both callers read the dirty draft and both have run publish to
\* its end, they have not both succeeded and every published record in
\* storage is linked to by a draft.
C7_RaceStopped ==
    (\A c \in Callers : pc[c] = "done" /\ loc[c].dirty = "True")
        => /\ ~(\A c \in Callers : loc[c].result = "ok")
           /\ \A r \in Published : \E d \in DOMAIN store : store[d].linked = r

\* the related rows directly under the held instance
DirectKids == {k \in DOMAIN kids : kids[k].tbl = "rec" /\ kids[k].owner = mem.pk}

\* C8: for a draft whose own modifiedAt is not later than its published
\* record's, is_dirty is True when some direct child has modified - created
\* over 5 seconds, and False when every direct child has at most 5.
C8_ChildEditThreshold ==
    (Linked(mem, store) /\ mem.modifiedAt <= store[mem.linked].modifiedAt)
        => /\ (\E k \in DirectKids : kids[k].delta > DirtySeconds)
                => is_dirty(store, kids, kidHasKids, mem) = "True"
           /\ (\A k \in DirectKids : kids[k].delta <= DirtySeconds)
                => is_dirty(store, kids, kidHasKids, mem) = "False"

\* C9: publish on a draft that has a published record leaves the published
\* date of the instance and of its row as it was; a publish that does work on
\* a draft without one sets it; an unpublish that does work clears it.
C9_PublishedAtPreserved ==
    /\ (last.op = "publish" /\ Linked(pre.mem, pre.store))
         => /\ mem.publishedAt = pre.mem.publishedAt
            /\ store[mem.pk].publishedAt = pre.store[mem.pk].publishedAt
    /\ (last.op = "publish" /\ last.result = "ok" /\ pre.mem.linked = None)
         => /\ mem.publishedAt \in Times
            /\ store[mem.pk].publishedAt = mem.publishedAt
    /\ (last.op = "unpublish" /\ last.result = "ok")
         => /\ mem.publishedAt = None
            /\ store[mem.pk].publishedAt = None

\* C9 witness: publish ran, at a later time, on a dirty draft that has a
\* published record and a published date
C9_Witness ==
    /\ last.op = "publish"
    /\ last.result # "noop"
    /\ Linked(pre.mem, pre.store)
    /\ pre.mem.publishedAt # None
    /\ now > pre.mem.publishedAt

\* C10: a row that carries a link has the published date of the row it links to.
C10_PublishedAtAgrees ==
    \A d \in DOMAIN store :
       store[d].linked # None
          => /\ store[d].linked \in DOMAIN store
             /\ store[d].publishedAt = store[store[d].linked].publishedAt

\* C10 witness: the linked pair that revert_to_public leaves, made at a later
\* time than the first publish
C10_Witness ==
    /\ last.op = "revert_to_public"
    /\ last.result = "ok"
    /\ Linked(mem, store)
    /\ store[mem.pk].publishedAt # None
    /\ store[mem.pk].publishedAt # pre.store[pre.mem.pk].publishedAt

\* C11: a publish that does work leaves the draft every related row it had,
\* at every depth, and gives the published record as many rows of its own,
\* none of which existed before: no row is under both.
C11_CloneIndependence ==
    [][(Publish /\ last'.result = "ok")
        => /\ Descendants(kids', "rec", mem.pk) = Descendants(kids, "rec", mem.pk)
           /\ \A k \in Descendants(kids, "rec", mem.pk) : kids'[k] = kids[k]
           /\ Descendants(kids', "rec", mem'.linked) \cap DOMAIN kids = {}
           /\ Descendants(kids', "rec", mem'.linked)
                 \cap Descendants(kids', "rec", mem.pk) = {}
           /\ Cardinality(Descendants(kids', "rec", mem'.linked))
                 = Cardinality(Descendants(kids, "rec", mem.pk))]_vars

\* C11 witness: after a publish, draft and published record each own a child
\* and a child of that child
C11_Witness ==
    /\ last.op = "publish"
    /\ last.result = "ok"
    /\ \E k \in Descendants(kids, "rec", mem.pk) : kids[k].tbl = "kid"
    /\ \E k \in Descendants(kids, "rec", mem.linked) : kids[k].tbl = "kid"

\* C12: publish, unpublish and revert_to_public called on a published record
\* end in an InvalidStateError, leave both tables as they are and send no signal.
C12_PublishedRejected ==
    [][(mem.isDraft = STATE_PUBLISHED /\ (Publish \/ Unpublish \/ RevertToPublic))
        => /\ last'.result = "InvalidStateError"
           /\ store' = store
           /\ kids' = kids
           /\ nextId' = nextId
           /\ nextKid' = nextKid
           /\ events' = <<>>]_vars

\* C12 witness: revert_to_public was called on a published record that a
\* draft links to
C12_Witness ==
    /\ last.op = "revert_to_public"
    /\ last.result = "InvalidStateError"
    /\ mem.isDraft = STATE_PUBLISHED
    /\ \E d \in DOMAIN store : store[d].linked = mem.pk

\* C13: publish on a draft that is not dirty, and unpublish and
\* revert_to_public on a draft without link, end without error, leave both
\* tables and the instance as they are and send no signal.
C13_SilentNoOps ==
    [][(/\ is_draft(mem)
        /\ \/ is_dirty(store, kids, kidHasKids, mem) = "False" /\ Publish
           \/ mem.linked = None /\ (Unpublish \/ RevertToPublic))
        => /\ last'.result = "noop"
           /\ store' = store
           /\ kids' = kids
           /\ nextId' = nextId
           /\ nextKid' = nextKid
           /\ mem' = mem
           /\ events' = <<>>]_vars

\* C13 witness: publish returned at once on a published draft that has
\* related rows and is not dirty
C13_Witness ==
    /\ last.op = "publish"
    /\ last.result = "noop"
    /\ Linked(mem, store)
    /\ DirectKids # {}
    /\ store = pre.store

\* C14: a publish that does work sends exactly one pre_save_draft signal and
\* then exactly one post_publish signal; at the first the published record and
\* the copies of the related rows are stored and the draft row does not yet
\* carry the new link, at the second the draft row carries it.
C14_SignalOrder ==
    (last.op = "publish" /\ last.result = "ok")
        => /\ Len(events) = 2
           /\ events[1].signal = pre_save_draft
           /\ events[2].signal = post_publish
           /\ mem.linked \in DOMAIN events[1].store
           /\ is_published(events[1].store[mem.linked])
           /\ events[1].kids = kids
           /\ Cardinality(Descendants(events[1].kids, "rec", mem.linked))
                 = Cardinality(Descendants(events[1].kids, "rec", mem.pk))
           /\ mem.pk \in DOMAIN events[1].store
                 => events[1].store[mem.pk].linked # mem.linked
           /\ events[2].store = store
           /\ mem.pk \in DOMAIN store
           /\ store[mem.pk].linked = mem.linked

\* C14 witness: a publish of a stored draft with related rows has sent its
\* two signals
C14_Witness ==
    /\ last.op = "publish"
    /\ last.result = "ok"
    /\ Len(events) = 2
    /\ mem.pk \in DOMAIN pre.store
    /\ Descendants(kids, "rec", mem.linked) # {}

\* C15: a draft whose modifiedAt is later than its published record's
\* modifiedAt is dirty, whatever related rows it has.
C15_DirtyMonotonic ==
    \A obj \in {mem} \cup {Get(store, d) : d \in DOMAIN store} :
       (/\ is_draft(obj)
        /\ obj.linked \in DOMAIN store
        /\ obj.modifiedAt > store[obj.linked].modifiedAt)
           => is_dirty(store, kids, kidHasKids, obj) = "True"

\* C15 witness: the draft was saved after its publish and has a related row
\* through a many-to-many relation that was not edited
C15_Witness ==
    /\ Linked(mem, store)
    /\ mem.modifiedAt > store[mem.linked].modifiedAt
    /\ \E k \in DirectKids : kids[k].rel = "m2m" /\ ~Edited(kids[k])
    /\ is_dirty(store, kids, kidHasKids, mem) = "True"

\* C16: a draft whose own timestamp and direct children are clean is dirty
\* when a deeper descendant has modified - created over 5 seconds.
C16_TransitiveDirty ==
    (/\ Linked(mem, store)
     /\ mem.modifiedAt <= store[mem.linked].modifiedAt
     /\ \A k \in DirectKids : ~Edited(kids[k])
     /\ \E k \in Descendants(kids, "rec", mem.pk) \ DirectKids : Edited(kids[k]))
        => is_dirty(store, kids, kidHasKids, mem) = "True"

\* C17: is_dirty of a draft with a published record ends with a boolean.
C17_DirtyIsBoolean ==
    \A obj \in {mem} \cup {Get(store, d) : d \in DOMAIN store} :
       (is_draft(obj) /\ obj.linked \in DOMAIN store)
           => is_dirty(store, kids, kidHasKids, obj) \in {"True", "False"}

\* C18: revert_to_public on a draft with a published record returns that
\* record's row as a draft, linked to a new published record that is neither
\* the old draft nor the old published record; the returned draft is not
\* dirty and the two rows are the only ones left.
C18_RevertRestoresPair ==
    (last.op = "revert_to_public" /\ Linked(pre.mem, pre.store))
        => /\ last.result = "ok"
           /\ mem.pk = pre.mem.linked
           /\ is_draft(mem)
           /\ mem.linked \in DOMAIN store \ DOMAIN pre.store
           /\ is_published(store[mem.linked])
           /\ DOMAIN store = {mem.pk, mem.linked}
           /\ is_dirty(store, kids, kidHasKids, mem) = "False"

\* C19: the clone_relations call of a publish changes and deletes no existing
\* related row; it adds exactly one row under a fresh pk per descendant of
\* the source, the copies of the direct children under the destination and
\* the copies of deeper descendants under the copy of their parent.
C19_CloneOnlyCreates ==
    [][(Publish /\ last'.result = "ok")
        => LET src == Descendants(kids, "rec", mem.pk)
               new == DOMAIN kids' \ DOMAIN kids
           IN  /\ \A k \in DOMAIN kids : k \in DOMAIN kids' /\ kids'[k] = kids[k]
               /\ \A k \in new : k >= nextKid /\ k < nextKid'
               /\ \E f \in [src -> new] :
                     /\ \A n \in new : Cardinality({k \in src : f[k] = n}) = 1
                     /\ \A k \in src :
                           /\ kids'[f[k]].rel = kids[k].rel
                           /\ kids'[f[k]].delta = kids[k].delta
                           /\ kids'[f[k]].tbl = kids[k].tbl
                           /\ kids'[f[k]].owner =
                                 IF kids[k].tbl = "rec" THEN mem'.linked
                                 ELSE f[kids[k].owner]]_vars

\* C19 witness: a publish has copied a child and, under the copy, the child's
\* own related row
C19_Witness ==
    /\ last.op = "publish"
    /\ last.result = "ok"
    /\ \E k \in DOMAIN kids :
          /\ kids[k].tbl = "kid"
          /\ kids[k].owner \in DOMAIN kids
          /\ kids[kids[k].owner].tbl = "rec"
          /\ kids[kids[k].owner].owner = mem.linked

\* C20: the draft returned by revert_to_public and its new published record
\* carry the published date the published record had before the call.
C20_RevertKeepsPublishedAt ==
    (last.op = "revert_to_public" /\ last.result = "ok" /\ Linked(pre.mem, pre.store))
        => /\ mem.publishedAt = pre.store[pre.mem.linked].publishedAt
           /\ store[mem.linked].publishedAt = pre.store[pre.mem.linked].publishedAt

====
